---- MODULE Spec2Model ----
(***************************************************************************)
(* A model of mlom: Lennard-Jones particles in a periodic cubic box.       *)
(*                                                                         *)
(* Numbers.  The program computes in f64; the model computes exactly.      *)
(*   - A length is a multiple of the grid step 1/Unit.  The step is half   *)
(*     of 0.01, so that a non-zero squared distance below the 0.0001 of    *)
(*     the engines exists on the grid.                                     *)
(*   - FAR_AWAY (99999999) times any grid length overflows the integers of *)
(*     TLC, so a coordinate is a pair <<f, a>>, the value                  *)
(*     f * FAR_AWAY + a (f counts lengths of FAR_AWAY, a grid steps), and  *)
(*     a squared quantity is a triple <<c2, c1, c0>>,                      *)
(*     the value c2 * FAR_AWAY^2 + c1 * FAR_AWAY + c0.  Every a and c0 of  *)
(*     the model is far below FAR_AWAY, so the order of two such values is *)
(*     the lexicographic one.                                              *)
(*   - A Lennard-Jones magnitude (R*/r)^e is kept as the monomial <<e, d>> *)
(*     with d = r^2; powi multiplies the exponent.  An energy is a formal  *)
(*     sum of monomials with rational coefficients, a force a formal sum   *)
(*     of (coefficient form, d, displacement).  Two equal formal sums are  *)
(*     equal reals.                                                        *)
(***************************************************************************)
EXTENDS Integers, Sequences, FiniteSets, TLC

VARIABLES particles, ret, phase, energies, oplog

vars == <<particles, ret, phase, energies, oplog>>

-----------------------------------------------------------------------------
(* Program constants *)

R_STAR == 3
EpsNum == 1
EpsDen == 5
R_CUT == 10
BOX_SIDE == 42
\* 0.0001 = 1 / TinyDen^2, 0.01 = 1 / TinyDen
TinyDen == 100
\* parameters of movement.rs whose values are not in the source files: the
\* mass (any mass but 1 behaves alike) and the time step, which fixes the
\* unit of momentum (one unit moves a unit mass one grid step per time step)
PARTICLE_MASS == 2
DELTA_TIME == 1

(* Bounds of the model *)

\* largest number of particles of a store
MaxN == 2
\* a coordinate difference is clamped to this many grid steps before it is
\* squared (above every cutoff but FAR_AWAY, below the integer overflow)
CoordCap == 26000
\* largest number of steps taken from an initial store
MaxSteps == 2

Unit == 2 * TinyDen

-----------------------------------------------------------------------------
(* Graded numbers <<f, a>> = f * FAR_AWAY + a, in grid steps *)

G(a) == <<0, a>>
FAR_AWAY == <<1, 0>>
Length(l) == <<0, l * Unit>>
GAdd(x, y) == <<x[1] + y[1], x[2] + y[2]>>
GSub(x, y) == <<x[1] - y[1], x[2] - y[2]>>
GScale(k, x) == <<k * x[1], k * x[2]>>
Clamp(a) == IF a > CoordCap THEN CoordCap ELSE IF a < -CoordCap THEN -CoordCap ELSE a

\* f64::powi(2) of a graded number
GSq(x) == <<x[1] * x[1], 2 * x[1] * Clamp(x[2]), Clamp(x[2]) * Clamp(x[2])>>
QAdd(p, q) == <<p[1] + q[1], p[2] + q[2], p[3] + q[3]>>
QZero == <<0, 0, 0>>
QLess(p, q) ==
    \/ p[1] < q[1]
    \/ p[1] = q[1] /\ p[2] < q[2]
    \/ p[1] = q[1] /\ p[2] = q[2] /\ p[3] < q[3]

\* d < 0.0001 and d > 0.01, d a squared distance in squared grid steps
LessThanTiny(d) == d[1] = 0 /\ d[2] = 0 /\ d[3] < Unit * Unit /\ d[3] * TinyDen * TinyDen < Unit * Unit
MoreThanHundredth(d) == QLess(QZero, <<d[1], d[2], 0>>) \/ d[3] >= Unit * Unit \/ d[3] * TinyDen > Unit * Unit

-----------------------------------------------------------------------------
(* algebra.rs: Point3 and Vector3, triples of graded numbers *)

VZero == <<G(0), G(0), G(0)>>
Vec(x, y, z) == <<G(x), G(y), G(z)>>
VAdd(u, v) == <<GAdd(u[1], v[1]), GAdd(u[2], v[2]), GAdd(u[3], v[3])>>
VSub(u, v) == <<GSub(u[1], v[1]), GSub(u[2], v[2]), GSub(u[3], v[3])>>
VMul(v, k) == <<GScale(k, v[1]), GScale(k, v[2]), GScale(k, v[3])>>

\* impl Div<f64> for Vector3 and impl DivAssign<f64> for Vector3: both multiply
VDiv(v, k) == <<GScale(k, v[1]), GScale(k, v[2]), GScale(k, v[3])>>

\* Point3::distance_to_squared: the value, and whether its assert!(d != 0.0) fails
DistSq(p, q) == QAdd(QAdd(GSq(GSub(p[1], q[1])), GSq(GSub(p[2], q[2]))), GSq(GSub(p[3], q[3])))
DistanceAsserts(p, q) == DistSq(p, q) = QZero

-----------------------------------------------------------------------------
(* periodic_conditions.rs: neighboring_3d_translations *)

\* the value pushed at the k-th iteration (k = 1..27) of the three nested loops
\* an enumerator whose last loop runs over 0, 1, 2 times the side
TranslationAtUnshifted(box_side, k) ==
    LET x == ((k - 1) \div 9) - 1
        y == (((k - 1) \div 3) % 3) - 1
        z == (k - 1) % 3
    IN  <<GScale(x, box_side), GScale(y, box_side), GScale(z, box_side)>>

TranslationAt(box_side, k) ==
    LET x == ((k - 1) \div 9) - 1
        y == (((k - 1) \div 3) % 3) - 1
        z == ((k - 1) % 3) - 1
    IN  <<GScale(x, box_side), GScale(y, box_side), GScale(z, box_side)>>

neighboring_3d_translations(box_side) == [k \in 1..27 |-> TranslationAt(box_side, k)]

-----------------------------------------------------------------------------
(* Exact rationals <<n, d>>, d > 0, in lowest terms *)

RECURSIVE Gcd(_, _)
Gcd(a, b) == IF b = 0 THEN a ELSE Gcd(b, a % b)
Abs(a) == IF a < 0 THEN -a ELSE a
Rat(n, d) ==
    LET g == Gcd(Abs(n), Abs(d))
        sg == IF d < 0 THEN -1 ELSE 1
    IN  <<sg * (n \div g), sg * (d \div g)>>
RatAdd(p, q) == Rat(p[1] * q[2] + q[1] * p[2], p[2] * q[2])
RatMul(p, q) == Rat(p[1] * q[1], p[2] * q[2])
EPSILON_STAR == Rat(EpsNum, EpsDen)

(* Formal sums of monomials: a set of <<e, d, c>>, the real number         *)
(* sum of c * (R_STAR / sqrt(d))^e, one term per <<e, d>>, no zero c       *)

FKeys(S) == {<<t[1], t[2]>> : t \in S}
FCoef(S, k) ==
    IF k \in FKeys(S) THEN (CHOOSE t \in S : t[1] = k[1] /\ t[2] = k[2])[3] ELSE <<0, 1>>
FAdd(S, T) ==
    {t \in {<<k[1], k[2], RatAdd(FCoef(S, k), FCoef(T, k))>> : k \in FKeys(S) \cup FKeys(T)} :
        t[3][1] # 0}
FScale(S, q) == {t \in {<<u[1], u[2], RatMul(u[3], q)>> : u \in S} : t[3][1] # 0}
FSub(S, T) == FAdd(S, FScale(T, <<-1, 1>>))

\* R_STAR / dist.sqrt() is the monomial of exponent 1, R_STAR.powi(2) / dist of exponent 2
RStarOverR(d) == <<1, d>>
RStarOverRPow2(d) == <<2, d>>
Powi(m, n) == <<m[1] * n, m[2]>>
FOf(m) == {<<m[1], m[2], <<1, 1>>>>}

-----------------------------------------------------------------------------
(* The triple (sym, i, j) visited at the k-th iteration of the nested loops *)

NbParticles(P) == Len(P)
TripleAt(P, k) ==
    LET n == NbParticles(P)
    IN  <<((k - 1) \div (n * n)) + 1, (((k - 1) \div n) % n) + 1, ((k - 1) % n) + 1>>
Triples(P, T) == (1..Len(T)) \X (1..NbParticles(P)) \X (1..NbParticles(P))

\* (self.particles[j].coordinates + sym).as_point()
ParticleJWithSymmetry(P, T, t) == VAdd(P[t[3]].coordinates, T[t[1]])
TripleDist(P, T, t) == DistSq(P[t[2]].coordinates, ParticleJWithSymmetry(P, T, t))

-----------------------------------------------------------------------------
(* periodic_conditions.rs: System::microscopic_energy_periodic *)

\* what the loop body does with one triple
\* an energy engine that leaves out the pair (i, i) under every translation
EnergyFateWithoutSelfImages(P, T, radius_cut, t) ==
    LET pj == ParticleJWithSymmetry(P, T, t)
        d == DistSq(P[t[2]].coordinates, pj)
    IN  IF t[2] = t[3] THEN "self"
        ELSE IF P[t[2]].coordinates = pj THEN "same"
        ELSE IF DistanceAsserts(P[t[2]].coordinates, pj) THEN "panic"
        ELSE IF d = QZero THEN "panic"
        ELSE IF LessThanTiny(d) /\ ~MoreThanHundredth(d) THEN "panic"
        ELSE IF QLess(GSq(radius_cut), d) THEN "cut"
        ELSE "add"

\* an energy engine that cuts off at r^2 >= r_cut^2
EnergyFateCutAtEquality(P, T, radius_cut, t) ==
    LET pj == ParticleJWithSymmetry(P, T, t)
        d == DistSq(P[t[2]].coordinates, pj)
    IN  IF t[2] = t[3] /\ T[t[1]] = VZero THEN "self"
        ELSE IF P[t[2]].coordinates = pj THEN "same"
        ELSE IF DistanceAsserts(P[t[2]].coordinates, pj) THEN "panic"
        ELSE IF d = QZero THEN "panic"
        ELSE IF LessThanTiny(d) /\ ~MoreThanHundredth(d) THEN "panic"
        ELSE IF ~QLess(d, GSq(radius_cut)) THEN "cut"
        ELSE "add"

EnergyFate(P, T, radius_cut, t) ==
    LET pj == ParticleJWithSymmetry(P, T, t)
        d == DistSq(P[t[2]].coordinates, pj)
    IN  IF t[2] = t[3] /\ T[t[1]] = VZero THEN "self"
        ELSE IF P[t[2]].coordinates = pj THEN "same"
        ELSE IF DistanceAsserts(P[t[2]].coordinates, pj) THEN "panic"
        ELSE IF d = QZero THEN "panic"
        ELSE IF LessThanTiny(d) /\ ~MoreThanHundredth(d) THEN "panic"
        ELSE IF QLess(GSq(radius_cut), d) THEN "cut"
        ELSE "add"

\* u_ij of the periodic engine
EnergyTermPeriodic(d) ==
    FSub(FOf(Powi(RStarOverR(d), 12)), FScale(FOf(Powi(RStarOverR(d), 6)), <<2, 1>>))

\* The loops stop at the first triple that panics: the triples after it are
\* never reached.
TripleIndex(P, t) == ((t[1] - 1) * NbParticles(P) + (t[2] - 1)) * NbParticles(P) + t[3]
SetMin(S) == CHOOSE x \in S : \A y \in S : x <= y
Reached(P, raw) ==
    LET panics == {TripleIndex(P, t) : t \in {u \in DOMAIN raw : raw[u] = "panic"}}
    IN  [t \in DOMAIN raw |->
            IF panics # {} /\ TripleIndex(P, t) > SetMin(panics) THEN "unreached" ELSE raw[t]]

\* total after the loops: total += u_ij once per triple that reaches the sum
EnergyTotal(P, T, fate) ==
    LET added == {t \in DOMAIN fate : fate[t] = "add"}
        dist == [t \in added |-> TripleDist(P, T, t)] @@ <<>>
    IN  UNION {FScale(EnergyTermPeriodic(d), <<Cardinality({t \in added : dist[t] = d}), 1>>) :
                  d \in {dist[t] : t \in added}}

microscopic_energy_periodic(P, T, radius_cut) ==
    LET fate == Reached(P, [t \in Triples(P, T) |-> EnergyFate(P, T, radius_cut, t)] @@ <<>>) @@ <<>>
        ok == \A t \in DOMAIN fate : fate[t] # "panic"
    IN  [ok |-> ok,
         value |-> IF ok
                   THEN FScale(FScale(EnergyTotal(P, T, fate), RatMul(<<4, 1>>, EPSILON_STAR)), <<1, 2>>)
                   ELSE {},
         diag |-> {t \in DOMAIN fate : fate[t] = "same" \/ (fate[t] = "panic" /\ LessThanTiny(TripleDist(P, T, t)))},
         fate |-> fate]

-----------------------------------------------------------------------------
(* system.rs: System::microscopic_energy *)

PairAt(P, k) == <<((k - 1) \div NbParticles(P)) + 1, ((k - 1) % NbParticles(P)) + 1>>
Pairs(P) == (1..NbParticles(P)) \X (1..NbParticles(P))

\* System::distance_between_squared, through Particle::distance_to_squared
PairDist(P, t) == DistSq(P[t[1]].coordinates, P[t[2]].coordinates)
PairFate(P, t) ==
    IF t[1] = t[2] THEN "self"
    ELSE IF DistanceAsserts(P[t[1]].coordinates, P[t[2]].coordinates) THEN "panic"
    ELSE "add"

\* u_ij of the non-periodic engine
EnergyTerm(d) ==
    LET r_star_over_r_ij_pow2 == RStarOverRPow2(d)
        r_star_over_r_ij_pow6 == Powi(r_star_over_r_ij_pow2, 3)
        r_star_over_r_ij_pow12 == Powi(r_star_over_r_ij_pow6, 2)
    IN  FScale(FSub(FOf(r_star_over_r_ij_pow12), FScale(FOf(r_star_over_r_ij_pow6), <<2, 1>>)),
               EPSILON_STAR)

PairIndex(P, t) == (t[1] - 1) * NbParticles(P) + t[2]
ReachedPairs(P, raw) ==
    LET panics == {PairIndex(P, t) : t \in {u \in DOMAIN raw : raw[u] = "panic"}}
    IN  [t \in DOMAIN raw |->
            IF panics # {} /\ PairIndex(P, t) > SetMin(panics) THEN "unreached" ELSE raw[t]]

microscopic_energy(P) ==
    LET fate == ReachedPairs(P, [t \in Pairs(P) |-> PairFate(P, t)])
        ok == \A t \in DOMAIN fate : fate[t] # "panic"
        added == {t \in DOMAIN fate : fate[t] = "add"}
        total == UNION {FScale(EnergyTerm(d), <<Cardinality({t \in added : PairDist(P, t) = d}), 1>>) :
                           d \in {PairDist(P, t) : t \in added}}
    IN  [ok |-> ok,
         value |-> IF ok THEN FScale(total, <<2, 1>>) ELSE {},
         diag |-> {},
         fate |-> fate]

-----------------------------------------------------------------------------
(* Formal force vectors: a set of <<hi, lo, d, c, delta>>, the real vector  *)
(* sum of c * ((R_STAR/r)^hi - (R_STAR/r)^lo) * delta with r = sqrt(d),     *)
(* one term per <<hi, lo, d, c>>, no zero delta                             *)

VKeys(S) == {<<t[1], t[2], t[3], t[4]>> : t \in S}
VDelta(S, k) ==
    IF k \in VKeys(S)
    THEN (CHOOSE t \in S : <<t[1], t[2], t[3], t[4]>> = k)[5]
    ELSE VZero
VFAdd(S, T) ==
    {t \in {<<k[1], k[2], k[3], k[4], VAdd(VDelta(S, k), VDelta(T, k))>> : k \in VKeys(S) \cup VKeys(T)} :
        t[5] # VZero}

\* the real vector is zero: every term left has a zero magnitude (r = R_STAR)
CoefIsZero(t) == t[1] = t[2] \/ t[3] = GSq(Length(R_STAR)) \/ t[4][1] = 0
ForceIsZero(S) == \A t \in S : CoefIsZero(t)

\* System::energy_gradient(p_i, p_j): the force that p_j applies on p_i.  Its
\* body is not among the source files; this is the documented force,
\* -48 * eps * [(R*/r)^14 - (R*/r)^8] * (p_i - p_j)
energy_gradient(pi, pj) ==
    LET d == DistSq(pi, pj)
        r_star_over_r_ij_pow14 == Powi(RStarOverR(d), 14)
        r_star_over_r_ij_pow8 == Powi(RStarOverR(d), 8)
    IN  {t \in {<<r_star_over_r_ij_pow14[1], r_star_over_r_ij_pow8[1], d,
                  RatMul(<<-48, 1>>, EPSILON_STAR), VSub(pi, pj)>>} : t[5] # VZero}

-----------------------------------------------------------------------------
(* periodic_conditions.rs: System::compute_forces_periodic *)

\* a force engine that fills the upper half of each matrix only
ForceFateUpperHalf(P, T, radius_cut, t) ==
    LET pj == ParticleJWithSymmetry(P, T, t)
        d == DistSq(P[t[2]].coordinates, pj)
    IN  IF t[2] >= t[3] THEN "self"
        ELSE IF P[t[2]].coordinates = pj THEN "same"
        ELSE IF DistanceAsserts(P[t[2]].coordinates, pj) THEN "panic"
        ELSE IF QLess(GSq(radius_cut), d) THEN "cut"
        ELSE IF LessThanTiny(d) THEN "tiny"
        ELSE "add"

\* a force engine without the test for the self pair at the zero image
ForceFateWithoutSelfTest(P, T, radius_cut, t) ==
    LET pj == ParticleJWithSymmetry(P, T, t)
        d == DistSq(P[t[2]].coordinates, pj)
    IN  IF P[t[2]].coordinates = pj THEN "same"
        ELSE IF DistanceAsserts(P[t[2]].coordinates, pj) THEN "panic"
        ELSE IF QLess(GSq(radius_cut), d) THEN "cut"
        ELSE IF LessThanTiny(d) THEN "tiny"
        ELSE "add"

ForceFate(P, T, radius_cut, t) ==
    LET pj == ParticleJWithSymmetry(P, T, t)
        d == DistSq(P[t[2]].coordinates, pj)
    IN  IF t[2] = t[3] /\ T[t[1]] = VZero THEN "self"
        ELSE IF P[t[2]].coordinates = pj THEN "same"
        ELSE IF DistanceAsserts(P[t[2]].coordinates, pj) THEN "panic"
        ELSE IF QLess(GSq(radius_cut), d) THEN "cut"
        ELSE IF LessThanTiny(d) THEN "tiny"
        ELSE "add"

compute_forces_periodic(P, T, radius_cut) ==
    LET fate == Reached(P, [t \in Triples(P, T) |-> ForceFate(P, T, radius_cut, t)] @@ <<>>) @@ <<>>
    IN  [ok |-> \A t \in DOMAIN fate : fate[t] # "panic",
         value |-> [t \in Triples(P, T) |->
                      IF fate[t] = "add"
                      THEN VFAdd({}, energy_gradient(P[t[2]].coordinates, ParticleJWithSymmetry(P, T, t)))
                      ELSE {}],
         diag |-> {t \in DOMAIN fate : fate[t] = "tiny"},
         fate |-> fate]

\* System::sum_of_forces_periodic: the entries lo..hi of the loops, added up
RECURSIVE SumTensor(_, _, _, _)
SumTensor(F, P, lo, hi) ==
    IF lo > hi THEN {}
    ELSE IF lo = hi THEN F[TripleAt(P, lo)]
    ELSE VFAdd(SumTensor(F, P, lo, (lo + hi) \div 2), SumTensor(F, P, ((lo + hi) \div 2) + 1, hi))
sum_of_forces_periodic(F, P, T) == SumTensor(F, P, 1, Len(T) * NbParticles(P) * NbParticles(P))

-----------------------------------------------------------------------------
(* system.rs: System::compute_forces *)

\* Vector3::from(gradient(x_i, x_j), gradient(y_i, y_j), gradient(z_i, z_j))
Gradient(P, t) ==
    LET d == PairDist(P, t)
        r_star_over_r_ij_pow2 == RStarOverRPow2(d)
        r_star_over_r_ij_pow8 == Powi(r_star_over_r_ij_pow2, 3)
        r_star_over_r_ij_pow14 == Powi(r_star_over_r_ij_pow8, 7)
    IN  {u \in {<<r_star_over_r_ij_pow14[1], r_star_over_r_ij_pow8[1], d,
                  RatMul(<<-48, 1>>, EPSILON_STAR),
                  VSub(P[t[1]].coordinates, P[t[2]].coordinates)>>} : u[5] # VZero}

compute_forces(P) ==
    LET fate == ReachedPairs(P, [t \in Pairs(P) |-> PairFate(P, t)])
    IN  [ok |-> \A t \in DOMAIN fate : fate[t] # "panic",
         value |-> [t \in Pairs(P) |-> IF fate[t] = "add" THEN Gradient(P, t) ELSE {}],
         diag |-> {},
         fate |-> fate]

\* System::sum_of_forces: the entries lo..hi of the loops, added up
RECURSIVE SumMatrix(_, _, _, _)
SumMatrix(F, P, lo, hi) ==
    IF lo > hi THEN {}
    ELSE IF lo = hi THEN F[PairAt(P, lo)]
    ELSE VFAdd(SumMatrix(F, P, lo, (lo + hi) \div 2), SumMatrix(F, P, ((lo + hi) \div 2) + 1, hi))
sum_of_forces(F, P) == SumMatrix(F, P, 1, NbParticles(P) * NbParticles(P))

-----------------------------------------------------------------------------
(* The stores and the arguments the calls are made with *)

\* positions: the origin; 0.005 away from it; at R_STAR; at R_CUT, off the
\* axes; one box side away
PointSet ==
    {Vec(0, 0, 0), Vec(1, 0, 0), Vec(R_STAR * Unit, 0, 0),
     Vec(6 * Unit, 8 * Unit, 0), Vec(BOX_SIDE * Unit, 0, 0)}

\* System::from_file: the particles in file order
Particle(c, m) == [coordinates |-> c, momentum |-> m]
Stores ==
    UNION {{[i \in 1..n |-> Particle(c[i], VZero)] : c \in [1..n -> PointSet]} : n \in 1..MaxN}

BoxSides == {Length(BOX_SIDE), Length(5), Length(0), FAR_AWAY}
TranslationSets == {<<VZero>>} \cup {neighboring_3d_translations(l) : l \in BoxSides}
Cutoffs == {Length(R_CUT), Length(BOX_SIDE), FAR_AWAY}

NoRet == [op |-> "none"]

InitEngine ==
    /\ particles \in Stores
    /\ ret = NoRet
    /\ phase = "loaded"
    /\ energies = <<>>
    /\ oplog = <<>>

CallNeighboringTranslations ==
    /\ ret = NoRet
    /\ \E l \in BoxSides :
          ret' = [op |-> "neighboring_3d_translations", box_side |-> l,
                  value |-> neighboring_3d_translations(l)]
    /\ UNCHANGED <<particles, phase, energies, oplog>>

CallMicroscopicEnergy ==
    /\ ret = NoRet
    /\ ret' = [op |-> "microscopic_energy", res |-> microscopic_energy(particles)]
    /\ UNCHANGED <<particles, phase, energies, oplog>>

CallMicroscopicEnergyPeriodic ==
    /\ ret = NoRet
    /\ \E T \in TranslationSets, rc \in Cutoffs :
          ret' = [op |-> "microscopic_energy_periodic", translations |-> T, radius_cut |-> rc,
                  res |-> microscopic_energy_periodic(particles, T, rc)]
    /\ UNCHANGED <<particles, phase, energies, oplog>>

CallComputeForces ==
    /\ ret = NoRet
    /\ ret' = [op |-> "compute_forces", res |-> compute_forces(particles)]
    /\ UNCHANGED <<particles, phase, energies, oplog>>

CallComputeForcesPeriodic ==
    /\ ret = NoRet
    /\ \E T \in TranslationSets, rc \in Cutoffs :
          ret' = [op |-> "compute_forces_periodic", translations |-> T, radius_cut |-> rc,
                  res |-> compute_forces_periodic(particles, T, rc)]
    /\ UNCHANGED <<particles, phase, energies, oplog>>

\* System::distance_between_squared(i, j), that is
\* Point3::distance_to_squared on the two positions
CallDistanceBetweenSquared ==
    /\ ret = NoRet
    /\ \E i \in 1..Len(particles), j \in 1..Len(particles) :
          ret' = [op |-> "distance_between_squared", i |-> i, j |-> j,
                  ok |-> ~DistanceAsserts(particles[i].coordinates, particles[j].coordinates),
                  value |-> DistSq(particles[i].coordinates, particles[j].coordinates)]
    /\ UNCHANGED <<particles, phase, energies, oplog>>

NextEngine ==
    \/ CallDistanceBetweenSquared
    \/ CallNeighboringTranslations
    \/ CallMicroscopicEnergy
    \/ CallMicroscopicEnergyPeriodic
    \/ CallComputeForces
    \/ CallComputeForcesPeriodic

SpecEngine == InitEngine /\ [][NextEngine]_vars

-----------------------------------------------------------------------------
(* Claims about the pair-interaction engines and the image enumerator *)

PairwiseDistinct(P) == \A i, j \in 1..Len(P) : i # j => P[i].coordinates # P[j].coordinates
Negate(S) == {<<t[1], t[2], t[3], t[4], VMul(t[5], -1)>> : t \in S}
IsImageSet(T) == T \in {neighboring_3d_translations(l) : l \in BoxSides}

\* C2: for a store of pairwise distinct positions the entries of the force
\* tensor sum to the zero vector, without periodicity and with the 27
\* translations under any cutoff, each entry F[s][i][j] being the opposite of
\* the entry F[s'][j][i] of the opposite translation s'.
C2_SumOfForcesIsNull ==
    /\ (ret.op = "compute_forces" /\ PairwiseDistinct(particles)) =>
          /\ ret.res.ok
          /\ ForceIsZero(sum_of_forces(ret.res.value, particles))
          /\ \A t \in Pairs(particles) : ret.res.value[<<t[2], t[1]>>] = Negate(ret.res.value[t])
    /\ (ret.op = "compute_forces_periodic" /\ IsImageSet(ret.translations)
            /\ PairwiseDistinct(particles)) =>
          /\ ret.res.ok
          /\ ForceIsZero(sum_of_forces_periodic(ret.res.value, particles, ret.translations))
          /\ \A t \in Triples(particles, ret.translations) :
                \E s \in 1..Len(ret.translations) :
                    /\ ret.translations[s] = VMul(ret.translations[t[1]], -1)
                    /\ ret.res.value[<<s, t[3], t[2]>>] = Negate(ret.res.value[t])

\* a periodic call with the images of the box where an image pair exerts a force
C2_Witness ==
    /\ ret.op = "compute_forces_periodic"
    /\ ret.translations = neighboring_3d_translations(Length(BOX_SIDE))
    /\ PairwiseDistinct(particles)
    /\ \E t \in Triples(particles, ret.translations) :
          ret.translations[t[1]] # VZero /\ ~ForceIsZero(ret.res.value[t])

\* Two energies agree within 1e-5: their difference is made of terms at a
\* distance of FAR_AWAY or more only.  Such a term is below
\* 3 * (R_STAR / (FAR_AWAY - CoordCap/Unit))^6 < 1e-44 times its coefficient,
\* and the coefficients of a sum stay below 2^31.
IsFarTerm(t) == t[2][1] >= 1
ApproxEq(S, T) == \A t \in FSub(S, T) : IsFarTerm(t)

IsPeriodicCall == ret.op \in {"microscopic_energy_periodic", "compute_forces_periodic"}
IsSelfAtZero(T, t) == t[2] = t[3] /\ T[t[1]] = VZero
IsZeroDistance(P, T, t) == ~IsSelfAtZero(T, t) /\ TripleDist(P, T, t) = QZero
AddedAt(P, T, fate, d) == {t \in DOMAIN fate : fate[t] = "add" /\ TripleDist(P, T, t) = d}

\* C3: with the single translation (0,0,0) and the cutoff FAR_AWAY the
\* periodic energy of any store is the non-periodic energy of that store:
\* both calls return, the values agree, and the periodic sum ranges over
\* exactly the ordered pairs i # j.
C3_SingleImageEquivalence ==
    (ret.op = "microscopic_energy_periodic" /\ ret.translations = <<VZero>>
        /\ ret.radius_cut = FAR_AWAY) =>
        /\ ret.res.ok
        /\ microscopic_energy(particles).ok
        /\ ApproxEq(ret.res.value, microscopic_energy(particles).value)
        /\ \A t \in Triples(particles, ret.translations) : ret.res.fate[t] = "add" <=> t[2] # t[3]

\* C4: with the 27 translations of side FAR_AWAY and the cutoff FAR_AWAY the
\* periodic energy of any store is the non-periodic energy of that store
\* within 1e-5: both calls return, and a term of a non-zero translation is
\* cut off or lies at a distance of FAR_AWAY or more.
C4_FarAwayEquivalence ==
    (ret.op = "microscopic_energy_periodic"
        /\ ret.translations = neighboring_3d_translations(FAR_AWAY)
        /\ ret.radius_cut = FAR_AWAY) =>
        /\ ret.res.ok
        /\ microscopic_energy(particles).ok
        /\ ApproxEq(ret.res.value, microscopic_energy(particles).value)
        /\ \A t \in Triples(particles, ret.translations) :
              ret.translations[t[1]] # VZero =>
                  \/ ret.res.fate[t] = "cut"
                  \/ ret.res.fate[t] = "add" /\ TripleDist(particles, ret.translations, t)[1] >= 1

\* C6: in the tensor of compute_forces_periodic the entry F[s][i][i] of a zero
\* translation s is the zero vector, and neither periodic engine evaluates
\* the pair (i, i) at a zero translation: the loop body leaves it at once.
C6_SelfPairAtZeroImage ==
    IsPeriodicCall =>
        \A t \in Triples(particles, ret.translations) :
            IsSelfAtZero(ret.translations, t) =>
                /\ ret.res.fate[t] \in {"self", "unreached"}
                /\ t \notin ret.res.diag
                /\ ret.op = "compute_forces_periodic" => ret.res.value[t] = {}

\* a force call that met a self pair at the zero image and a pair with a force
C6_Witness ==
    /\ ret.op = "compute_forces_periodic"
    /\ \E t \in Triples(particles, ret.translations) :
          IsSelfAtZero(ret.translations, t) /\ ret.res.fate[t] = "self"
    /\ \E t \in Triples(particles, ret.translations) : ~ForceIsZero(ret.res.value[t])

\* C7: when a triple (s, i, j) has r^2 = 0 both periodic engines skip it,
\* emit a diagnostic for it and return with the contributions of all the
\* other triples; the call does not abort and the entry F[s][i][j] is zero.
C7_ZeroDistanceSkippedWithDiagnostic ==
    IsPeriodicCall =>
        \A t \in Triples(particles, ret.translations) :
            IsZeroDistance(particles, ret.translations, t) =>
                /\ ret.res.ok
                /\ ret.res.fate[t] = "same"
                /\ t \in ret.res.diag
                /\ ret.op = "compute_forces_periodic" => ret.res.value[t] = {}

\* C8: in both periodic engines a triple is cut off only when r^2 is strictly
\* above the squared cutoff; a triple with r^2 equal to it reaches the sum
\* and contributes (a non-zero force entry, a term of the energy).
C8_CutoffIsStrict ==
    IsPeriodicCall =>
        \A t \in Triples(particles, ret.translations) :
            LET d == TripleDist(particles, ret.translations, t)
            IN  /\ ret.res.fate[t] = "cut" => QLess(GSq(ret.radius_cut), d)
                /\ (d = GSq(ret.radius_cut) /\ ret.res.fate[t] # "unreached") =>
                      /\ ret.res.fate[t] = "add"
                      /\ ret.op = "compute_forces_periodic" =>
                            ret.res.value[t] # {} /\ ~ForceIsZero(ret.res.value[t])
                      /\ (ret.op = "microscopic_energy_periodic" /\ ret.res.ok) =>
                            FCoef(ret.res.value, <<12, d>>) =
                                Rat(2 * EpsNum * Cardinality(AddedAt(particles, ret.translations, ret.res.fate, d)),
                                    EpsDen)

\* an energy call with the cutoff R_CUT and a pair exactly R_CUT apart
C8_Witness ==
    /\ ret.op = "microscopic_energy_periodic"
    /\ ret.radius_cut = Length(R_CUT)
    /\ ret.res.ok
    /\ \E t \in Triples(particles, ret.translations) :
          /\ TripleDist(particles, ret.translations, t) = GSq(ret.radius_cut)
          /\ ret.res.fate[t] = "add"

\* C9: neighboring_3d_translations(L) returns 27 vectors, the vectors
\* (i*L, j*L, k*L) for i, j, k in {-1, 0, 1}; for L # 0 no vector is repeated
\* and the zero translation is there exactly once.
C9_TwentySevenTranslations ==
    ret.op = "neighboring_3d_translations" =>
        /\ DOMAIN ret.value = 1..27
        /\ ret.value = neighboring_3d_translations(ret.box_side)
        /\ {ret.value[k] : k \in 1..27} =
              {<<GScale(i, ret.box_side), GScale(j, ret.box_side), GScale(k, ret.box_side)>> :
                  i \in {-1, 0, 1}, j \in {-1, 0, 1}, k \in {-1, 0, 1}}
        /\ ret.box_side # G(0) =>
              /\ \A a, b \in 1..27 : ret.value[a] = ret.value[b] => a = b
              /\ Cardinality({k \in 1..27 : ret.value[k] = VZero}) = 1

\* a call with the side of the simulation box
C9_Witness ==
    /\ ret.op = "neighboring_3d_translations"
    /\ ret.box_side = Length(BOX_SIDE)
    /\ Cardinality({ret.value[k] : k \in 1..27}) = 27

-----------------------------------------------------------------------------
(* movement.rs: the thermal initializer.  The momenta are kept up to the    *)
(* positive factor that recalibrate_according_to_temperature multiplies     *)
(* them by: the factor is the same for every particle, so a sum of momenta  *)
(* is zero exactly when the sum of the kept vectors is.                     *)

Momenta(P) == [i \in 1..Len(P) |-> P[i].momentum]
WithMomenta(P, m) == [i \in 1..Len(P) |-> Particle(P[i].coordinates, m[i])]

RECURSIVE SumVectors(_, _, _)
SumVectors(m, lo, hi) ==
    IF lo > hi THEN VZero
    ELSE IF lo = hi THEN m[lo]
    ELSE VAdd(SumVectors(m, lo, (lo + hi) \div 2), SumVectors(m, ((lo + hi) \div 2) + 1, hi))

\* System::degrees_of_liberty
degrees_of_liberty(P) == 3 * NbParticles(P) - 3

\* sum_p2 of System::kinetic_energy_and_temperature, in squared momentum units
RECURSIVE SumP2(_, _, _)
SumP2(m, lo, hi) ==
    IF lo > hi THEN 0
    ELSE IF lo = hi THEN m[lo][1][2] * m[lo][1][2] + m[lo][2][2] * m[lo][2][2] + m[lo][3][2] * m[lo][3][2]
    ELSE SumP2(m, lo, (lo + hi) \div 2) + SumP2(m, ((lo + hi) \div 2) + 1, hi)

\* System::recalibrate_according_to_temperature: nothing for a kinetic energy
\* of zero; else every momentum times sqrt(desired_ke / initial_ke), a positive
\* factor unless there is no degree of liberty, and then zero
recalibrate_according_to_temperature(P) ==
    IF SumP2(Momenta(P), 1, Len(P)) <= 0 THEN P
    ELSE IF degrees_of_liberty(P) = 0 THEN WithMomenta(P, [i \in 1..Len(P) |-> VZero])
    ELSE P

\* System::recalibrate_according_to_center_of_mass
recalibrate_according_to_center_of_mass(P) ==
    LET center == VDiv(SumVectors(Momenta(P), 1, Len(P)), NbParticles(P))
    IN  WithMomenta(P, [i \in 1..Len(P) |-> VSub(P[i].momentum, center)])

\* System::init_particles_momentums, draws being the random vectors
init_particles_momentums(P, draws) ==
    recalibrate_according_to_temperature(
        recalibrate_according_to_center_of_mass(
            recalibrate_according_to_temperature(WithMomenta(P, draws))))

\* Vector3::random_in_unit_cube: the corners, edges, faces and centre of [-1, 1]^3
UnitCube == {Vec(x, y, z) : x \in {-1, 0, 1}, y \in {-1, 0, 1}, z \in {-1, 0, 1}}

\* the stores the initializer is run on: n particles R_STAR apart on a line
LineStore(n) == [i \in 1..n |-> Particle(Vec(i * R_STAR * Unit, 0, 0), VZero)]

InitThermal ==
    /\ particles \in {LineStore(n) : n \in 2..MaxN}
    /\ ret = NoRet
    /\ phase = "loaded"
    /\ energies = <<>>
    /\ oplog = <<>>

CallInitParticlesMomentums ==
    /\ phase = "loaded"
    /\ \E draws \in [1..Len(particles) -> UnitCube] :
          /\ particles' = init_particles_momentums(particles, draws)
          /\ ret' = [op |-> "init_particles_momentums", draws |-> draws]
    /\ phase' = "initialised"
    /\ UNCHANGED <<energies, oplog>>

\* a later call of recalibrate_according_to_center_of_mass, which is public
CallRecalibrateCenterOfMass ==
    /\ phase = "initialised"
    /\ ret.op = "init_particles_momentums"
    /\ particles' = recalibrate_according_to_center_of_mass(particles)
    /\ ret' = [op |-> "recalibrate_according_to_center_of_mass", before |-> Momenta(particles)]
    /\ UNCHANGED <<phase, energies, oplog>>

NextThermal == CallInitParticlesMomentums \/ CallRecalibrateCenterOfMass

SpecThermal == InitThermal /\ [][NextThermal]_vars

\* C1: after init_particles_momentums the momenta of the store sum to the
\* zero vector, for every number of particles and every draw.
C1_NetMomentumZero ==
    ret.op = "init_particles_momentums" => SumVectors(Momenta(particles), 1, Len(particles)) = VZero

-----------------------------------------------------------------------------
(* movement.rs: one velocity-Verlet step.  A half kick is                   *)
(* 0.5 * force * DELTA_TIME * CONVERSION_FORCE; the conversion factor is    *)
(* not in the source files, so a kick is kept on the momentum grid by its   *)
(* direction: one unit per force term and axis, with the sign of the term.  *)

\* System::forces_applied_to_particles: flattened[i] is the sum over every
\* image and every j of forces[sym][i][j]
RECURSIVE SumRow(_, _, _, _, _)
SumRow(F, P, i, lo, hi) ==
    IF lo > hi THEN {}
    ELSE IF lo = hi
         THEN F[<<((lo - 1) \div NbParticles(P)) + 1, i, ((lo - 1) % NbParticles(P)) + 1>>]
         ELSE VFAdd(SumRow(F, P, i, lo, (lo + hi) \div 2), SumRow(F, P, i, ((lo + hi) \div 2) + 1, hi))

forces_applied_to_particles(P) ==
    LET T == neighboring_3d_translations(Length(BOX_SIDE))
        F == compute_forces_periodic(P, T, Length(R_CUT)).value
    IN  [i \in 1..NbParticles(P) |-> SumRow(F, P, i, 1, Len(T) * NbParticles(P))]

Sign(a) == IF a > 0 THEN 1 ELSE IF a < 0 THEN -1 ELSE 0

\* the sign of coefficient * ((R*/r)^hi - (R*/r)^lo) of a force term, hi > lo:
\* the bracket is positive inside R*, negative outside
TermSign(t) ==
    IF CoefIsZero(t) THEN 0
    ELSE Sign(t[4][1]) * (IF QLess(t[3], GSq(Length(R_STAR))) THEN 1 ELSE -1)

AxisKick(S, a) ==
    Cardinality({t \in S : TermSign(t) * Sign(t[5][a][2]) > 0})
        - Cardinality({t \in S : TermSign(t) * Sign(t[5][a][2]) < 0})

\* 0.5 * force * DELTA_TIME * CONVERSION_FORCE on the momentum grid
HalfKick(S) == Vec(AxisKick(S, 1) * DELTA_TIME, AxisKick(S, 2) * DELTA_TIME, AxisKick(S, 3) * DELTA_TIME)

\* the scan for the closest pair at the top of step: distance_to_squared is
\* called for every image and every i # j, and asserts on a distance of zero
ScanAsserts(P) ==
    LET T == neighboring_3d_translations(Length(BOX_SIDE))
    IN  \E k \in 1..Len(T), i \in 1..Len(P), j \in 1..Len(P) :
            i # j /\ DistanceAsserts(P[i].coordinates, VAdd(P[j].coordinates, T[k]))

\* Point3::put_back_in_box: every coordinate brought into [0, box_side) by
\* whole box sides
WrapCoord(a, box_side) == G(a[2] % box_side[2])
put_back_in_box(p, box_side) == <<WrapCoord(p[1], box_side), WrapCoord(p[2], box_side), WrapCoord(p[3], box_side)>>

Kicked(P, forces) ==
    [i \in 1..Len(P) |-> Particle(P[i].coordinates, VSub(P[i].momentum, HalfKick(forces[i])))]

\* velocity = momentum / PARTICLE_MASS; coordinates += velocity * DELTA_TIME
Drifted(P) ==
    [i \in 1..Len(P) |->
        Particle(VAdd(P[i].coordinates, VMul(VDiv(P[i].momentum, PARTICLE_MASS), DELTA_TIME)),
                 P[i].momentum)]

\* a step that leaves the particles where the drift put them
LeftWhereDrifted(P) == P

Wrapped(P) ==
    [i \in 1..Len(P) |-> Particle(put_back_in_box(P[i].coordinates, Length(BOX_SIDE)), P[i].momentum)]

\* System::step, in the order of its statements
step(P) ==
    LET forces0 == forces_applied_to_particles(P)
        kicked  == Kicked(P, forces0)
        drifted == Drifted(kicked)
        forces1 == forces_applied_to_particles(drifted)
        kicked2 == Kicked(drifted, forces1)
    IN  IF ScanAsserts(P)
        THEN [ok |-> FALSE, particles |-> P, drifted |-> P, forcesAt |-> <<P>>,
              log |-> <<"forces", "scan">>]
        ELSE [ok |-> TRUE, particles |-> Wrapped(kicked2), drifted |-> drifted,
              forcesAt |-> <<P, drifted>>,
              log |-> <<"forces", "scan", "kick", "drift", "forces", "kick", "wrap">>]

-----------------------------------------------------------------------------
(* The simulation: a store with momenta, stepped; and the scalar division   *)
(* of algebra.rs called on its own.                                        *)

\* the particles of the stores that are stepped: at rest and moving, closer
\* than R_STAR to another and farther, next to a face of the box, on it, and
\* outside the box
StepParticles ==
    {Particle(Vec(0, 0, 0), VZero),
     Particle(Vec(2 * Unit, 0, 0), Vec(1, 0, 0)),
     Particle(Vec(R_STAR * Unit, 0, 0), VZero),
     Particle(Vec(4 * Unit, 0, 0), Vec(0, -1, 3)),
     Particle(Vec(BOX_SIDE * Unit - 1, 0, 0), Vec(1, 0, 0)),
     Particle(Vec(BOX_SIDE * Unit, 0, 0), VZero),
     Particle(Vec(0, -1, 0), Vec(0, -1, 3))}

StepStores == UNION {[1..n -> StepParticles] : n \in 1..MaxN}

DivVectors == {VZero, Vec(2, 4, 6), Vec(-3, 0, 1)}
DivScalars == {-2, 0, 1, 2, 3}

InitStep ==
    /\ particles \in StepStores
    /\ ret = NoRet
    /\ phase = "loaded"
    /\ energies = <<>>
    /\ oplog = <<>>

\* Vector3 / f64: it returns for every scalar, zero included
CallDiv ==
    /\ ret = NoRet
    /\ \E v \in DivVectors, s \in DivScalars :
          ret' = [op |-> "div", v |-> v, s |-> s, ok |-> TRUE, value |-> VDiv(v, s)]
    /\ UNCHANGED <<particles, phase, energies, oplog>>

\* System::step; a failed assertion ends the process
Step ==
    /\ phase # "panicked"
    /\ ret.op \in {"none", "step"}
    /\ Len(oplog) < MaxSteps
    /\ \E res \in {step(particles)} :
          /\ particles' = res.particles
          /\ ret' = [op |-> "step", ok |-> res.ok, before |-> particles,
                     drifted |-> res.drifted, forcesAt |-> res.forcesAt]
          /\ phase' = IF res.ok THEN "running" ELSE "panicked"
          /\ oplog' = Append(oplog, res.log)
    /\ UNCHANGED energies

NextStep == CallDiv \/ Step

SpecStep == InitStep /\ [][NextStep]_vars

InBox(p) == \A a \in 1..3 : p[a][1] = 0 /\ 0 <= p[a][2] /\ p[a][2] < BOX_SIDE * Unit

\* C5: after every completed step each coordinate of each particle is in
\* [0, BOX_SIDE), whatever the positions and momenta were before the step.
C5_WrappedAfterStep ==
    (ret.op = "step" /\ ret.ok) => \A i \in 1..Len(particles) : InBox(particles[i].coordinates)

\* a completed step whose drift had carried a particle out of the box, with a
\* particle that was outside the box before the step
C5_Witness ==
    /\ ret.op = "step" /\ ret.ok
    /\ \E i \in 1..Len(particles) :
          /\ InBox(ret.before[i].coordinates)
          /\ ~InBox(ret.drifted[i].coordinates)
          /\ particles[i].coordinates # ret.drifted[i].coordinates
    /\ \E i \in 1..Len(particles) : ~InBox(ret.before[i].coordinates)

\* C10: dividing a vector by a scalar s gives the vector whose components
\* times s are the operand's, and fails for s = 0; the drift of a step
\* therefore moves a particle by DELTA_TIME * momentum / PARTICLE_MASS.
C10_DivisionIsQuotient ==
    /\ ret.op = "div" =>
          /\ ret.s # 0 => (ret.ok /\ VMul(ret.value, ret.s) = ret.v)
          /\ ret.s = 0 => ~ret.ok
    /\ (ret.op = "step" /\ ret.ok) =>
          \A i \in 1..Len(particles) :
             VMul(VSub(ret.drifted[i].coordinates, ret.before[i].coordinates), PARTICLE_MASS)
                = VMul(ret.drifted[i].momentum, DELTA_TIME)

-----------------------------------------------------------------------------
(* movement.rs: total_energy and the loop of energy_evolution.  The loop is *)
(* one action per iteration; ret keeps the loop index and, for the record,  *)
(* the store after each completed step.                                     *)

\* the kinetic energy of System::kinetic_energy_and_temperature:
\* sum_p2 / (2 * PARTICLE_MASS)
kinetic_energy(P) == Rat(SumP2(Momenta(P), 1, Len(P)), 2 * PARTICLE_MASS)

\* System::total_energy: the pair stands for kinetic_energy + potential_energy
total_energy(P) ==
    LET potential == microscopic_energy_periodic(
                         P, neighboring_3d_translations(Length(BOX_SIDE)), Length(R_CUT))
    IN  [ok |-> potential.ok,
         value |-> IF potential.ok THEN <<kinetic_energy(P), potential.value>> ELSE <<>>]

InitEvolution ==
    /\ particles \in StepStores
    /\ ret = NoRet
    /\ phase = "loaded"
    /\ energies = <<>>
    /\ oplog = <<>>

\* energy_evolution(nb_steps, save_to) up to the loop
CallEnergyEvolution ==
    /\ phase = "loaded"
    /\ \E n \in 0..MaxSteps :
          ret' = [op |-> "energy_evolution", nb_steps |-> n, completed |-> 0, stores |-> <<>>]
    /\ energies' = <<>>
    /\ phase' = "evolving"
    /\ UNCHANGED <<particles, oplog>>

\* one iteration of `for step in 0..nb_steps`: step, total_energy for the
\* line printed, total_energy again for the value pushed (the same value)
EvolutionIteration ==
    /\ phase = "evolving"
    /\ ret.completed < ret.nb_steps
    /\ \E res \in {step(particles)} :
          IF ~res.ok
          THEN /\ phase' = "panicked"
               /\ UNCHANGED <<particles, ret, energies, oplog>>
          ELSE \E printed \in {total_energy(res.particles)} :
                  /\ particles' = res.particles
                  /\ ret' = [ret EXCEPT !.completed = @ + 1, !.stores = Append(@, res.particles)]
                  /\ oplog' = Append(oplog, res.log)
                  /\ energies' = IF printed.ok THEN Append(energies, printed.value) ELSE energies
                  /\ phase' = IF printed.ok THEN "evolving" ELSE "panicked"

\* after the loop: the bounds of the chart are the least and the greatest
\* entry, unwrapped, so an empty series panics; else the chart is drawn
EvolutionPlot ==
    /\ phase = "evolving"
    /\ ret.completed = ret.nb_steps
    /\ phase' = IF energies = <<>> THEN "panicked" ELSE "done"
    /\ UNCHANGED <<particles, ret, energies, oplog>>

NextEvolution == CallEnergyEvolution \/ EvolutionIteration \/ EvolutionPlot

SpecEvolution == InitEvolution /\ [][NextEvolution]_vars

\* C11: in energy_evolution the series holds one entry per completed step,
\* entry i being the total energy of the store right after step i; when the
\* loop has ended the series has nb_steps entries.
C11_OneEntryPerCompletedStep ==
    ret.op = "energy_evolution" =>
        /\ Len(energies) = ret.completed
        /\ \A i \in 1..Len(energies) :
              i <= Len(ret.stores) /\ total_energy(ret.stores[i]).ok
                  /\ energies[i] = total_energy(ret.stores[i]).value
        /\ ret.completed = ret.nb_steps => Len(energies) = ret.nb_steps

-----------------------------------------------------------------------------
(* Claims about single particles, the order inside step, the exponents of   *)
(* compute_forces and the assertion of distance_to_squared                  *)

IsEnergyCall == ret.op \in {"microscopic_energy", "microscopic_energy_periodic"}
NormSq(v) == DistSq(v, VZero)
WithinCutoff(v, radius_cut) == v # VZero /\ ~QLess(GSq(radius_cut), NormSq(v))

C13_WrapBeforeSecondForces ==
    (ret.op = "step" /\ ret.ok) =>
        /\ ret.forcesAt[2] = Wrapped(ret.drifted)
        /\ \A i \in 1..Len(particles) : InBox(ret.forcesAt[2][i].coordinates)

\* the force -48 * eps * ((R*/r)^14 - (R*/r)^8) * (p_i - p_j) of the claim
ForceOfFourteenAndEight(P, t) ==
    {u \in {<<14, 8, PairDist(P, t), RatMul(<<-48, 1>>, EPSILON_STAR),
              VSub(P[t[1]].coordinates, P[t[2]].coordinates)>>} : u[5] # VZero}

\* C14: for every pair i # j the entry of compute_forces is
\* -48 * eps * ((R*/r)^14 - (R*/r)^8) * (position(i) - position(j)); two
\* entries that are both the zero vector (r = R*) count as equal.
C14_FourteenthAndEighthPower ==
    (ret.op = "compute_forces" /\ ret.res.ok) =>
        \A t \in Pairs(particles) :
            t[1] # t[2] =>
                \/ ret.res.value[t] = ForceOfFourteenAndEight(particles, t)
                \/ ForceIsZero(ret.res.value[t]) /\ ForceIsZero(ForceOfFourteenAndEight(particles, t))

\* C15: distance_to_squared returns the squared distance of any two points,
\* 0 for equal points, without asserting; microscopic_energy, compute_forces
\* and step therefore complete on every store.
C15_SquaredDistanceNeverAsserts ==
    /\ ret.op = "distance_between_squared" =>
          /\ ret.ok
          /\ ret.value = DistSq(particles[ret.i].coordinates, particles[ret.j].coordinates)
    /\ ret.op \in {"microscopic_energy", "compute_forces"} => ret.res.ok
    /\ ret.op = "step" => ret.ok

Contributing(fate) == {t \in DOMAIN fate : fate[t] = "add"}

\* C16: on the store that step is called on, with the translations of the
\* box and the cutoff R_CUT that step and total_energy use, the two periodic
\* engines add the same triples and skip the same, and one returns when the
\* other does; total_energy completes on the store of every completed step.
C16_EnginesAgreeOnTriples ==
    ret.op = "step" =>
        LET T == neighboring_3d_translations(Length(BOX_SIDE))
            e == microscopic_energy_periodic(ret.before, T, Length(R_CUT))
            f == compute_forces_periodic(ret.before, T, Length(R_CUT))
        IN  /\ e.ok <=> f.ok
            /\ Contributing(e.fate) = Contributing(f.fate)
            /\ ret.ok => total_energy(particles).ok

====
